---- MODULE Spec2Model ----
(***************************************************************************)
(* Model of the ml_zoo gateway (src/backend): the request dispatcher       *)
(* routes/model_router.py, the digit adapter api/handnumbers.py, the       *)
(* cluster adapter api/kmeansPlusPlus.py and the metadata client           *)
(* api/modeslinfo.py.                                                      *)
(*                                                                         *)
(* Text is a sequence of characters.  "A" stands for any of the 64 base64  *)
(* data characters, "=" is the pad character, " " and "\n" are white       *)
(* space, "," is the comma and "!" stands for any other ASCII character.   *)
(* The token "data:image/" stands for that literal prefix of a data URL.   *)
(***************************************************************************)
EXTENDS Integers, Sequences, FiniteSets, TLC

VARIABLES pc, req, resp, posts, gets, ctx

vars == <<pc, req, resp, posts, gets, ctx>>

\* ------------------------------------------------------------------ bounds
MaxLen == 4

\* ------------------------------------------------------------------ text
Chars == {"A", "=", " ", "\n", ",", "!"}

DataImagePrefix == "data:image/"

SeqUpTo(S, n) == UNION {[1..k -> S] : k \in 0..n}

\* payloads of the digit endpoint: raw text, or a data URL prefix and text
DigitPayloads ==
    SeqUpTo(Chars, MaxLen) \cup {<<DataImagePrefix>> \o s : s \in SeqUpTo(Chars, MaxLen)}

\* str.strip(): white space removed at both ends
whitespace == {" ", "\n"}

RECURSIVE lstrip(_)
lstrip(s) == IF s # <<>> /\ Head(s) \in whitespace THEN lstrip(Tail(s)) ELSE s

RECURSIVE rstrip(_)
rstrip(s) ==
    IF s # <<>> /\ s[Len(s)] \in whitespace THEN rstrip(SubSeq(s, 1, Len(s) - 1)) ELSE s

strip(s) == rstrip(lstrip(s))

startswith(s, tok) == s # <<>> /\ Head(s) = tok

Contains(s, c) == \E i \in 1..Len(s) : s[i] = c

FirstIndex(s, c) == CHOOSE i \in 1..Len(s) : s[i] = c /\ \A j \in 1..(i - 1) : s[j] # c

\* data.split(',', 1): one part when there is no comma, else two
split_comma(s) ==
    IF Contains(s, ",")
    THEN <<SubSeq(s, 1, FirstIndex(s, ",") - 1), SubSeq(s, FirstIndex(s, ",") + 1, Len(s))>>
    ELSE <<s>>

\* data.replace('\n', '').replace('\r', '')
RECURSIVE remove_newlines(_)
remove_newlines(s) ==
    IF s = <<>> THEN <<>>
    ELSE IF Head(s) = "\n" THEN remove_newlines(Tail(s))
    ELSE <<Head(s)>> \o remove_newlines(Tail(s))

\* string.ascii_letters + string.digits + '+/='
valid_chars == {"A", "="}

\* binascii.a2b_base64 as base64.b64decode(s) calls it (validate=False):
\* characters outside the alphabet are discarded, a pad that completes the
\* quad ends the parse, leftover data characters are an error.
\* Result: ok, and the number of decoded bytes.
RECURSIVE a2b_base64(_, _, _, _)
a2b_base64(s, quad_pos, pads, n) ==
    IF s = <<>>
    THEN [ok |-> quad_pos = 0, n |-> n]
    ELSE IF Head(s) = "="
    THEN IF quad_pos >= 2 /\ quad_pos + pads + 1 >= 4
         THEN [ok |-> TRUE, n |-> n]
         ELSE a2b_base64(Tail(s), quad_pos, IF quad_pos >= 2 THEN pads + 1 ELSE pads, n)
    ELSE IF Head(s) # "A"
    THEN a2b_base64(Tail(s), quad_pos, pads, n)
    ELSE a2b_base64(Tail(s), (quad_pos + 1) % 4, 0, IF quad_pos = 0 THEN n ELSE n + 1)

b64decode(s) == a2b_base64(s, 0, 0, 0)

\* ------------------------------------------------------------------ digit adapter
ValueErrorEmpty == "Empty image data provided"
ValueErrorDataURL == "Invalid data URL format: no base64 data after comma"
ValueErrorChars == "Invalid base64 format: contains invalid characters"
ValueErrorDecode == "Invalid base64 data"

\* (variant: the check of line 59 left out)
hn_chars_ok_skipped(data) == TRUE

\* line 59: every character, newlines removed, is in valid_chars
hn_chars_ok(data) ==
    \A i \in 1..Len(remove_newlines(data)) : remove_newlines(data)[i] \in valid_chars

\* ModelHandNumbers.validate_request: "ok" or the message of the ValueError.
\* (Line 64 tests the prefix 'data:'; a payload that begins with 'data:' and
\* not with 'data:image/' has failed the check of line 59 by then.)
hn_validate_request(data) ==
    IF data = <<>> \/ Len(strip(data)) = 0 THEN ValueErrorEmpty
    ELSE IF startswith(data, DataImagePrefix)
            /\ (~Contains(data, ",") \/ Len(strip(split_comma(data)[2])) = 0)
    THEN ValueErrorDataURL
    ELSE IF ~startswith(data, DataImagePrefix) /\ ~hn_chars_ok(data)
    THEN ValueErrorChars
    ELSE LET test_data == IF startswith(data, DataImagePrefix)
                          THEN split_comma(data)[2] ELSE data
         IN IF b64decode(test_data).ok THEN "ok" ELSE ValueErrorDecode

\* exceptions: a type and, where the handlers read it, a message
NoExc == [type |-> "none", msg |-> ""]

Exc(t, m) == [type |-> t, msg |-> m]

\* the exception types that are ValueError or a subclass of it
\* (binascii.Error, json.JSONDecodeError, pydantic's ValidationError)
ValueErrorTypes == {"ValueError", "binascii.Error", "JSONDecodeError", "ValidationError"}

\* ModelHandNumbers.predict up to the POST (lines 74-90): the exception raised,
\* or none and the number of image bytes.  image: the decoded bytes are an
\* image PIL can open.
hn_predict_prepare(data, image) ==
    IF startswith(data, DataImagePrefix) /\ ~Contains(data, ",")
    THEN [exc |-> Exc("IndexError", "list index out of range"), n |-> 0]
    ELSE LET d == IF startswith(data, DataImagePrefix) THEN split_comma(data)[2] ELSE data
             image_bytes == b64decode(d)
         IN IF ~image_bytes.ok
            THEN [exc |-> Exc("binascii.Error", "Incorrect padding"), n |-> 0]
            ELSE IF ~(image /\ image_bytes.n > 0)
            THEN [exc |-> Exc("UnidentifiedImageError", "cannot identify image file"),
                  n |-> image_bytes.n]
            ELSE [exc |-> NoExc, n |-> image_bytes.n]

\* ------------------------------------------------------------------ serving backend
\* What the serving backend does with one HTTP call:
\*   unreachable  the connection fails (aiohttp.ClientError)
\*   status       it answers with a status other than 200
\*   contenttype  it answers 200 with a body that is not served as JSON
\*                (aiohttp.ContentTypeError, a ClientError)
\*   badjson      it answers 200 with a malformed JSON body (json.JSONDecodeError)
\*   json         it answers 200 with a JSON body
UpFailures ==
    {[kind |-> "unreachable", status |-> 0], [kind |-> "status", status |-> 500],
     [kind |-> "contenttype", status |-> 200],
     [kind |-> "badjson", status |-> 200]}

MaxScores == 2

Scores == {1, 9}

\* JSON bodies of the digit model: {"predictions": [[score, ...]]}, the
\* predictions list empty, or the field missing
HnBodies ==
    {[keys |-> {}, predictions |-> <<>>], [keys |-> {"predictions"}, predictions |-> <<>>]}
    \cup {[keys |-> {"predictions"}, predictions |-> <<s>>] : s \in SeqUpTo(Scores, MaxScores)}

HnReplies == UpFailures \cup {[kind |-> "json", status |-> 200, body |-> b] : b \in HnBodies}

SeqMax(s) == CHOOSE m \in {s[i] : i \in 1..Len(s)} : \A i \in 1..Len(s) : s[i] <= m

\* (variant: of several maxima the last index)
argmax_last(s) == (CHOOSE i \in 1..Len(s) : s[i] = SeqMax(s) /\ \A j \in (i + 1)..Len(s) : s[j] # SeqMax(s)) - 1

\* np.argmax: the first index of the maximum, counted from 0
argmax(s) == (CHOOSE i \in 1..Len(s) : s[i] = SeqMax(s) /\ \A j \in 1..(i - 1) : s[j] # SeqMax(s)) - 1

\* (variant: a failed connection raised as a ValueError)
post_result_value_error(up) ==
    CASE up.kind = "unreachable" -> Exc("ValueError", "Cannot connect to host")
      [] up.kind = "status" -> Exc("Exception", "serving failed")
      [] up.kind = "contenttype" -> Exc("ClientError", "unexpected mimetype")
      [] up.kind = "badjson" -> Exc("JSONDecodeError", "Expecting value")
      [] OTHER -> NoExc

\* session.post(...) and response.json() of both adapters (handnumbers.py
\* lines 95-103, kmeansPlusPlus.py lines 83-95; a ClientError is re-raised as
\* an Exception by kmeansPlusPlus.py lines 157-159): the exception raised, or none
post_result(up) ==
    CASE up.kind = "unreachable" -> Exc("ClientError", "Cannot connect to host")
      [] up.kind = "status" -> Exc("Exception", "serving failed")
      [] up.kind = "contenttype" -> Exc("ClientError", "unexpected mimetype")
      [] up.kind = "badjson" -> Exc("JSONDecodeError", "Expecting value")
      [] OTHER -> NoExc

\* (variant: a failed image write raises out of the save methods)
save_images_if_enabled_raising(save_images, w_original, w_processed) ==
    [exc |-> IF save_images /\ ~(w_original /\ w_processed)
             THEN Exc("OSError", "Permission denied") ELSE NoExc,
     attempts |-> IF save_images THEN 2 ELSE 0,
     saved |-> IF save_images
               THEN (IF w_original THEN 1 ELSE 0) + (IF w_processed THEN 1 ELSE 0)
               ELSE 0]

\* lines 117-126 with _save_image_if_enabled (lines 168-211) and
\* _save_processed_image_if_enabled (lines 213-257): when config.SAVE_IMAGES
\* is set both writes are attempted, each inside a try whose except clause
\* logs and returns "".  w_original, w_processed: the write succeeds.
save_images_if_enabled(save_images, w_original, w_processed) ==
    [exc |-> NoExc,
     attempts |-> IF save_images THEN 2 ELSE 0,
     saved |-> IF save_images
               THEN (IF w_original THEN 1 ELSE 0) + (IF w_processed THEN 1 ELSE 0)
               ELSE 0]

\* ModelHandNumbers.predict after the POST (lines 97-132): the exception
\* raised, or none with the response; the image writes attempted and the
\* images saved
hn_predict_finish(up, save_images, w_original, w_processed) ==
    IF post_result(up) # NoExc
    THEN [exc |-> post_result(up), attempts |-> 0, saved |-> 0]
    ELSE IF "predictions" \notin up.body.keys
    THEN [exc |-> Exc("KeyError", "predictions"), attempts |-> 0, saved |-> 0]
    ELSE IF up.body.predictions = <<>>
    THEN [exc |-> Exc("IndexError", "list index out of range"), attempts |-> 0, saved |-> 0]
    ELSE LET predictions == up.body.predictions[1]
             s == save_images_if_enabled(save_images, w_original, w_processed)
         IN IF predictions = <<>>
            THEN [exc |-> Exc("ValueError", "attempt to get argmax of an empty sequence"),
                  attempts |-> 0, saved |-> 0]
            ELSE IF s.exc # NoExc
            THEN [exc |-> s.exc, attempts |-> s.attempts, saved |-> s.saved]
            ELSE [exc |-> NoExc, attempts |-> s.attempts, saved |-> s.saved,
                  body |-> [prediction |-> argmax(predictions),
                            confidence |-> SeqMax(predictions),
                            probabilities |-> predictions]]

\* ------------------------------------------------------------------ cluster adapter
MaxPointsAllowed == 1000

\* JSON scalars: [t |-> type, v |-> value]; a float's value is in tenths
JInt(n) == [t |-> "int", v |-> n]

JFloat(tenths) == [t |-> "float", v |-> tenths]

JStr == [t |-> "str", v |-> 0]

JBool == [t |-> "bool", v |-> 1]

JNull == [t |-> "null", v |-> 0]

JNested == [t |-> "list", v |-> 0]

\* a JSON value that is an array of items, or something else
JList(items) == [list |-> TRUE, items |-> items]

JOther == [list |-> FALSE, items |-> <<>>]

\* payloads of the cluster endpoint: the text is empty, blank, malformed JSON,
\* or JSON text, given by the value json.loads returns for it
KmText(kind) == [text |-> kind, value |-> JOther]

KmJson(value) == [text |-> "json", value |-> value]

\* isinstance(coord, (int, float)): bool is a subclass of int
is_int_or_float(coord) == coord.t \in {"int", "float", "bool"}

km_point_shape_ok(point) == point.list /\ Len(point.items) = 2

km_point_ok(point) ==
    /\ km_point_shape_ok(point)
    /\ \A j \in 1..Len(point.items) : is_int_or_float(point.items[j])

\* the message of the first failing point, in the order of the loop (lines 56-62)
km_first_point_error(points) ==
    LET i == CHOOSE k \in 1..Len(points) :
                 ~km_point_ok(points[k]) /\ \A m \in 1..(k - 1) : km_point_ok(points[m])
    IN IF ~km_point_shape_ok(points[i])
       THEN "Point must be a 2D coordinate [x, y]"
       ELSE "Point coordinate must be a number"

\* ModelKMeansPlusPlus.validate_request: "ok" and the points, or the message
\* of the ValueError
km_validate_request(data) ==
    IF data.text \in {"empty", "blank"}
    THEN [exc |-> "Empty data provided", points |-> <<>>]
    ELSE IF data.text = "malformed"
    THEN [exc |-> "Invalid JSON format", points |-> <<>>]
    ELSE LET points == data.value
         IN IF ~points.list \/ Len(points.items) = 0
            THEN [exc |-> "Points must be a non-empty array", points |-> <<>>]
            ELSE IF Len(points.items) > MaxPointsAllowed
            THEN [exc |-> "Too many points. Maximum 1000 points allowed.", points |-> <<>>]
            ELSE IF \E k \in 1..Len(points.items) : ~km_point_ok(points.items[k])
            THEN [exc |-> km_first_point_error(points.items), points |-> <<>>]
            ELSE [exc |-> "ok", points |-> points.items]

\* int(x) and float(x) of a JSON scalar: the value, or a ValueError for text
\* that is no number; a float is truncated by int()
py_int(x) == IF x.t = "float" THEN x.v \div 10 ELSE x.v

py_float(x) == IF x.t = "float" THEN x.v ELSE 10 * x.v

\* values of the centroids field, named by their JSON text: K1 and K2 are
\* centroid lists (k pairs of coordinates)
CentroidValues == {"[K1,K2]", "[]", "null"}

centroids_is_list(c) == c \in {"[K1,K2]", "[]"}

centroids_len(c) == CASE c = "[K1,K2]" -> 2 [] OTHER -> 0

centroids_first(c) == CASE c = "[K1,K2]" -> "K1" [] OTHER -> "IndexError"

\* line 118: centroids_3d[0] if it is a non-empty list, else centroids_3d
select_centroids(centroids_3d) ==
    IF centroids_is_list(centroids_3d) /\ centroids_len(centroids_3d) > 0
    THEN centroids_first(centroids_3d)
    ELSE centroids_3d

\* (variant: a value that is no list becomes a list of that one value)
as_list_single(field, n) ==
    IF field.list THEN field.items ELSE <<field.items[1]>>

\* lines 112-115: a value that is no list becomes len(points) copies of it
as_list(field, n) ==
    IF field.list THEN field.items ELSE [i \in 1..n |-> field.items[1]]

\* (variant: the loop of line 122 over len(cluster_assignments))
predictions_array_per_assignment(cluster_assignments, distances, centroids, n) ==
    [i \in 1..Len(cluster_assignments) |->
        [cluster_assignments |-> py_int(cluster_assignments[i]),
         centroids |-> centroids,
         distances_to_assigned_cluster |-> IF i <= Len(distances)
                                           THEN py_float(distances[i]) ELSE 0]]

\* lines 121-127: one record per input point
predictions_array(cluster_assignments, distances, centroids, n) ==
    [i \in 1..n |->
        [cluster_assignments |-> IF i <= Len(cluster_assignments)
                                 THEN py_int(cluster_assignments[i]) ELSE 0,
         centroids |-> centroids,
         distances_to_assigned_cluster |-> IF i <= Len(distances)
                                           THEN py_float(distances[i]) ELSE 0]]

\* the conversions of lines 121-127 raise a ValueError on text
predictions_array_fails(cluster_assignments, distances, n) ==
    \E i \in 1..n :
        \/ i <= Len(cluster_assignments) /\ cluster_assignments[i].t = "str"
        \/ i <= Len(distances) /\ distances[i].t = "str"

Count(s, x) == Cardinality({i \in 1..Len(s) : s[i] = x})

Values(s) == {s[i] : i \in 1..Len(s)}

\* (variant: of several most frequent values the largest one)
dominant_cluster_largest(cluster_assignments) ==
    CHOOSE x \in Values(cluster_assignments) :
        /\ \A y \in Values(cluster_assignments) :
               Count(cluster_assignments, y) <= Count(cluster_assignments, x)
        /\ \A y \in Values(cluster_assignments) :
               Count(cluster_assignments, y) = Count(cluster_assignments, x) => x.v >= y.v

\* line 131: max(set(cluster_assignments), key=cluster_assignments.count).
\* max keeps the first maximal element of the iteration, and a set of the
\* integers 0..7 iterates in ascending order.
dominant_cluster(cluster_assignments) ==
    CHOOSE x \in Values(cluster_assignments) :
        /\ \A y \in Values(cluster_assignments) :
               Count(cluster_assignments, y) <= Count(cluster_assignments, x)
        /\ \A y \in Values(cluster_assignments) :
               Count(cluster_assignments, y) = Count(cluster_assignments, x) => x.v <= y.v

RECURSIVE SumTenths(_)
SumTenths(s) == IF s = <<>> THEN 0 ELSE py_float(Head(s)) + SumTenths(Tail(s))

Clamp(lo, x, hi) == IF x < lo THEN lo ELSE IF x > hi THEN hi ELSE x

\* lines 130-137: confidence as the fraction num/den.  avg_distance is
\* sum(distances) / len(distances); with the sum T in tenths,
\* 1 - avg_distance / 10 is (100 * len - T) / (100 * len)
km_confidence(cluster_assignments, distances) ==
    IF Len(cluster_assignments) > 0 /\ Len(distances) > 0
    THEN [num |-> Clamp(0, 100 * Len(distances) - SumTenths(distances), 100 * Len(distances)),
          den |-> 100 * Len(distances)]
    ELSE [num |-> 1, den |-> 1]

\* (variant: the counts divided by the number of buckets)
km_probabilities_by_buckets(cluster_assignments) ==
    IF cluster_assignments = <<>>
    THEN <<[num |-> 1, den |-> 1]>>
    ELSE LET max_cluster == SeqMax([i \in 1..Len(cluster_assignments) |->
                                       cluster_assignments[i].v]) + 1
         IN [c \in 1..max_cluster |->
                [num |-> Count(cluster_assignments, JInt(c - 1)),
                 den |-> max_cluster]]

\* lines 140-148: the share of each cluster id from 0 to the largest one, as
\* fractions num/den
km_probabilities(cluster_assignments) ==
    IF cluster_assignments = <<>>
    THEN <<[num |-> 1, den |-> 1]>>
    ELSE LET max_cluster == SeqMax([i \in 1..Len(cluster_assignments) |->
                                       cluster_assignments[i].v]) + 1
         IN [c \in 1..max_cluster |->
                [num |-> Count(cluster_assignments, JInt(c - 1)),
                 den |-> Len(cluster_assignments)]]

KmFields == {"cluster_assignments", "distances_to_assigned_cluster", "centroids"}

\* ModelKMeansPlusPlus.predict after the POST (lines 89-165): the exception
\* raised, or none and the response
km_predict_finish(up, n) ==
    IF post_result(up).type = "ClientError"
    THEN [exc |-> Exc("Exception", "Failed to connect to model server")]
    ELSE IF post_result(up) # NoExc
    THEN [exc |-> post_result(up)]
    ELSE IF "predictions" \notin up.body.keys
    THEN [exc |-> Exc("Exception", "Invalid response from model server: missing")]
    ELSE IF up.body.predictions = <<>>
    THEN [exc |-> Exc("IndexError", "list index out of range")]
    ELSE LET tf_predictions == up.body.predictions[1]
         IN IF ~(KmFields \subseteq tf_predictions.keys)
            THEN [exc |-> Exc("Exception", "Invalid response from model server: missing")]
            ELSE LET cluster_assignments == as_list(tf_predictions.cluster_assignments, n)
                     distances == as_list(tf_predictions.distances_to_assigned_cluster, n)
                     centroids == select_centroids(tf_predictions.centroids)
                 IN IF predictions_array_fails(cluster_assignments, distances, n)
                    THEN [exc |-> Exc("ValueError", "could not convert string")]
                    ELSE IF \/ /\ cluster_assignments # <<>>
                                  /\ \E i \in 1..Len(distances) : distances[i].t = "str"
                            \/ \E i \in 1..Len(cluster_assignments) :
                                   cluster_assignments[i].t # "int"
                    THEN [exc |-> Exc("TypeError", "unsupported operand type")]
                    ELSE [exc |-> NoExc,
                          body |-> [prediction |-> IF cluster_assignments # <<>>
                                                   THEN py_int(dominant_cluster(cluster_assignments))
                                                   ELSE 0,
                                    confidence |-> km_confidence(cluster_assignments, distances),
                                    probabilities |-> km_probabilities(cluster_assignments),
                                    predictions |-> predictions_array(cluster_assignments,
                                                        distances, centroids, n)]]

\* ------------------------------------------------------------------ dispatcher
NoResp == [status |-> 0]

NoUp == [kind |-> "none", status |-> 0]

\* the handler's locals, and the backend's answers it has received
NoCtx == [saved |-> 0, attempts |-> 0, save_images |-> FALSE, w_original |-> FALSE,
          w_processed |-> FALSE, up |-> NoUp, points |-> <<>>, known |-> <<>>, i |-> 0,
          all_models |-> <<>>, log |-> <<>>]

\* (variant: no except clause for ValueError)
predict_error_without_400(e, prefix) == [status |-> 500, detail |-> <<"Internal server error">>]

\* the except clauses of the two predict routes (model_router.py lines 72-80
\* and 98-106)
predict_error(e, prefix) ==
    IF e.type \in ValueErrorTypes
    THEN [status |-> 400, detail |-> <<prefix, e.msg>>]
    ELSE [status |-> 500, detail |-> <<"Internal server error">>]

\* POST /v1/models/handnumbers/{version}/predict, up to the call of the backend
PredictHandnumbers(data, image) ==
    /\ pc = "idle"
    /\ image => b64decode(strip(data)).ok \/ startswith(data, DataImagePrefix)
    /\ req' = [op |-> "handnumbers", data |-> data, image |-> image]
    /\ LET v == hn_validate_request(data)
           p == hn_predict_prepare(data, image)
       IN IF v # "ok"
          THEN /\ resp' = predict_error(Exc("ValueError", v), "Invalid image data: ")
               /\ pc' = "done"
               /\ UNCHANGED posts
          ELSE IF p.exc # NoExc
          THEN /\ resp' = predict_error(p.exc, "Invalid image data: ")
               /\ pc' = "done"
               /\ UNCHANGED posts
          ELSE /\ pc' = "hn_post"
               /\ posts' = posts + 1
               /\ UNCHANGED resp
    /\ UNCHANGED <<gets, ctx>>

\* the backend's answer to the digit POST, and the rest of the handler
\* (save_images: config.SAVE_IMAGES as line 117 reads it; w_original and
\* w_processed: the two image writes succeed)
HandnumbersReply(up, save_images, w_original, w_processed) ==
    /\ pc = "hn_post"
    /\ LET r == hn_predict_finish(up, save_images, w_original, w_processed)
       IN /\ resp' = IF r.exc # NoExc
                     THEN predict_error(r.exc, "Invalid image data: ")
                     ELSE [status |-> 200, body |-> r.body]
          /\ ctx' = [ctx EXCEPT !.saved = r.saved, !.attempts = r.attempts, !.up = up,
                                !.save_images = save_images, !.w_original = w_original,
                                !.w_processed = w_processed]
    /\ pc' = "done"
    /\ UNCHANGED <<req, posts, gets>>

\* ---- inputs of the cluster endpoint
MaxPts == 3

MaxArr == 2

PointOk == JList(<<JInt(1), JFloat(25)>>)

PointOfThree == JList(<<JInt(1), JInt(2), JInt(3)>>)

KmPayloads ==
    {KmText("empty"), KmText("blank"), KmText("malformed"), KmJson(JOther)}
    \cup {KmJson(JList(s)) : s \in SeqUpTo({PointOk, PointOfThree}, MaxPts)}

ClusterIds == {0, 1, 2}

AssignScalars == {JInt(c) : c \in ClusterIds} \cup {JFloat(15), JStr}

DistScalars == {JInt(0), JFloat(5), JInt(20), JStr}

\* a field of the backend's answer: an array, or a single value
FieldValues(S) ==
    {JList(s) : s \in SeqUpTo(S, MaxArr)} \cup {[list |-> FALSE, items |-> <<x>>] : x \in S}

TfPredictions(keys, a, d, c) ==
    [keys |-> keys, cluster_assignments |-> a, distances_to_assigned_cluster |-> d,
     centroids |-> c]

\* JSON bodies of the cluster model: {"predictions": [{...}]}, with a field
\* missing, the predictions list empty, or the predictions field missing
KmBodies ==
    {[keys |-> {}, predictions |-> <<>>], [keys |-> {"predictions"}, predictions |-> <<>>]}
    \cup {[keys |-> {"predictions"},
           predictions |-> <<TfPredictions(KmFields \ {f}, JList(<<>>), JList(<<>>), "[]")>>] :
              f \in KmFields}
    \cup {[keys |-> {"predictions"}, predictions |-> <<TfPredictions(KmFields, a, d, c)>>] :
              a \in FieldValues(AssignScalars), d \in FieldValues(DistScalars),
              c \in CentroidValues}

KmReplies == UpFailures \cup {[kind |-> "json", status |-> 200, body |-> b] : b \in KmBodies}

\* POST /v1/models/kmeans/{version}/predict, up to the call of the backend
PredictKmeans(data) ==
    /\ pc = "idle"
    /\ req' = [op |-> "kmeans", data |-> data]
    /\ LET v == km_validate_request(data)
       IN IF v.exc # "ok"
          THEN /\ resp' = predict_error(Exc("ValueError", v.exc), "Invalid data: ")
               /\ pc' = "done"
               /\ UNCHANGED <<posts, ctx>>
          ELSE /\ pc' = "km_post"
               /\ posts' = posts + 1
               /\ ctx' = [ctx EXCEPT !.points = v.points]
               /\ UNCHANGED resp
    /\ UNCHANGED gets

\* the backend's answer to the cluster POST, and the rest of the handler
KmeansReply(up) ==
    /\ pc = "km_post"
    /\ LET r == km_predict_finish(up, Len(ctx.points))
       IN resp' = IF r.exc # NoExc
                  THEN predict_error(r.exc, "Invalid data: ")
                  ELSE [status |-> 200, body |-> r.body]
    /\ ctx' = [ctx EXCEPT !.up = up]
    /\ pc' = "done"
    /\ UNCHANGED <<req, posts, gets>>

\* ------------------------------------------------------------------ metadata client
MaxCfg == 3

CfgChars == {"a", "b", ",", " "}

\* values of config.KNOWN_MODELS
KnownModelsValues == SeqUpTo(CfgChars, MaxCfg)

\* str.split(","): the parts between the commas
RECURSIVE split(_)
split(s) ==
    IF Contains(s, ",")
    THEN <<split_comma(s)[1]>> \o split(split_comma(s)[2])
    ELSE <<s>>

\* ModelServiceClient._get_known_models
get_known_models(known_models) ==
    [i \in 1..Len(split(known_models)) |-> strip(split(known_models)[i])]

\* the backend's model status object of a 200 answer
ModelStatus == [model_version_status |-> "AVAILABLE"]

MetaReplies == UpFailures \cup {[kind |-> "json", status |-> 200, body |-> ModelStatus]}

\* ModelServiceClient._get_model_info: the exception raised, or none and the
\* parsed body
get_model_info(up) ==
    CASE up.kind \in {"unreachable", "contenttype"} ->
             [exc |-> Exc("Exception", "Cannot connect to model service")]
      [] up.kind = "status" ->
             [exc |-> Exc("Exception", "Model service returned status")]
      [] up.kind = "badjson" -> [exc |-> Exc("JSONDecodeError", "Expecting value")]
      [] OTHER -> [exc |-> NoExc, result |-> up.body]

\* lines 26-31: the entry of one model in all_models
model_entry(up) ==
    IF get_model_info(up).exc # NoExc
    THEN [error |-> get_model_info(up).exc.msg]
    ELSE get_model_info(up).result

\* (variant: available_models counts every entry)
all_models_result_counting_all(all_models) ==
    [models |-> all_models,
     total_models |-> Cardinality(DOMAIN all_models),
     available_models |-> Cardinality(DOMAIN all_models)]

\* lines 33-37: the result of get_all_models
all_models_result(all_models) ==
    [models |-> all_models,
     total_models |-> Cardinality(DOMAIN all_models),
     available_models |->
         Cardinality({m \in DOMAIN all_models : "error" \notin DOMAIN all_models[m]})]

EmptyMap == [m \in {} |-> 0]

\* GET /v1/models: the client starts its loop and queries the first model
GetAllModels(known_models) ==
    /\ pc = "idle"
    /\ req' = [op |-> "models", known_models |-> known_models]
    /\ ctx' = [ctx EXCEPT !.known = get_known_models(known_models), !.i = 1,
                          !.all_models = EmptyMap, !.log = <<>>]
    /\ gets' = gets + 1
    /\ pc' = "models_get"
    /\ UNCHANGED <<resp, posts>>

\* (variant: get_all_models raises when no model is available, and the route
\* answers 503)
ModelInfoReplyRaising(up) ==
    /\ pc = "models_get"
    /\ LET all_models == (ctx.known[ctx.i] :> model_entry(up)) @@ ctx.all_models
       IN IF ctx.i < Len(ctx.known)
          THEN /\ ctx' = [ctx EXCEPT !.i = ctx.i + 1, !.all_models = all_models,
                                     !.log = Append(ctx.log, up)]
               /\ gets' = gets + 1
               /\ UNCHANGED <<pc, resp>>
          ELSE /\ ctx' = [ctx EXCEPT !.all_models = all_models, !.log = Append(ctx.log, up)]
               /\ resp' = IF all_models_result(all_models).available_models = 0
                          THEN [status |-> 503, detail |-> <<"Cannot get models info: ", "">>]
                          ELSE [status |-> 200, body |-> all_models_result(all_models)]
               /\ pc' = "done"
               /\ UNCHANGED gets
    /\ UNCHANGED <<req, posts>>

\* (variant: a failed query is repeated once before its error is recorded)
ModelInfoReplyRetrying(up) ==
    /\ pc = "models_get"
    /\ LET all_models == (ctx.known[ctx.i] :> model_entry(up)) @@ ctx.all_models
       IN IF up.kind # "json" /\ gets = ctx.i
          THEN /\ gets' = gets + 1
               /\ UNCHANGED <<pc, resp, ctx>>
          ELSE IF ctx.i < Len(ctx.known)
          THEN /\ ctx' = [ctx EXCEPT !.i = ctx.i + 1, !.all_models = all_models,
                                     !.log = Append(ctx.log, up)]
               /\ gets' = gets + 1
               /\ UNCHANGED <<pc, resp>>
          ELSE /\ ctx' = [ctx EXCEPT !.all_models = all_models, !.log = Append(ctx.log, up)]
               /\ resp' = [status |-> 200, body |-> all_models_result(all_models)]
               /\ pc' = "done"
               /\ UNCHANGED gets
    /\ UNCHANGED <<req, posts>>

\* the backend's answer to the query of model i; the loop goes on to the
\* next model, or ends and the route returns the result
ModelInfoReply(up) ==
    /\ pc = "models_get"
    /\ LET all_models == (ctx.known[ctx.i] :> model_entry(up)) @@ ctx.all_models
       IN IF ctx.i < Len(ctx.known)
          THEN /\ ctx' = [ctx EXCEPT !.i = ctx.i + 1, !.all_models = all_models,
                                     !.log = Append(ctx.log, up)]
               /\ gets' = gets + 1
               /\ UNCHANGED <<pc, resp>>
          ELSE /\ ctx' = [ctx EXCEPT !.all_models = all_models, !.log = Append(ctx.log, up)]
               /\ resp' = [status |-> 200, body |-> all_models_result(all_models)]
               /\ pc' = "done"
               /\ UNCHANGED gets
    /\ UNCHANGED <<req, posts>>

\* the attributes of ModelServiceClient (modeslinfo.py lines 9-79)
ModelServiceClientAttributes ==
    {"base_url", "get_all_models", "_get_model_info", "_get_known_models"}

ModelNames == {<<"a">>, <<"b">>}

Versions == {"1", "2"}

\* model_service.get_model_info(...) of the two single-model routes: the
\* exception raised by the call
call_get_model_info ==
    IF "get_model_info" \notin ModelServiceClientAttributes
    THEN Exc("AttributeError", "'ModelServiceClient' object has no attribute 'get_model_info'")
    ELSE NoExc

\* GET /v1/models/{model_name} and GET /v1/models/{model_name}/versions/{version}
\* (version "" for the first).  backend: what the serving backend would
\* answer to the query of this model.
GetModelInfo(model_name, version, backend) ==
    /\ pc = "idle"
    /\ req' = [op |-> "model_info", model_name |-> model_name, version |-> version,
               backend |-> backend]
    /\ call_get_model_info # NoExc
    /\ resp' = [status |-> 503, detail |-> <<"Cannot get model info: ", call_get_model_info.msg>>]
    /\ pc' = "done"
    /\ UNCHANGED <<posts, gets, ctx>>

GetModelInfoByName(model_name, backend) == GetModelInfo(model_name, "", backend)

GetModelInfoByVersion(model_name, version, backend) ==
    GetModelInfo(model_name, version, backend)

\* the response is written and the request's objects are discarded
Complete ==
    /\ pc = "done"
    /\ pc' = "idle"
    /\ req' = [op |-> "none"]
    /\ resp' = NoResp
    /\ posts' = 0
    /\ gets' = 0
    /\ ctx' = NoCtx

Init ==
    /\ pc = "idle"
    /\ req = [op |-> "none"]
    /\ resp = NoResp
    /\ posts = 0
    /\ gets = 0
    /\ ctx = NoCtx

\* one request is handled at a time: every request is handled by objects of
\* its own (spec section 5), so requests do not interact
Next ==
    \/ /\ pc = "idle"
       /\ \E data \in DigitPayloads, image \in BOOLEAN : PredictHandnumbers(data, image)
    \/ /\ pc = "hn_post"
       /\ \E up \in HnReplies, save_images \in BOOLEAN, w1 \in BOOLEAN, w2 \in BOOLEAN :
              HandnumbersReply(up, save_images, w1, w2)
    \/ /\ pc = "idle"
       /\ \E data \in KmPayloads : PredictKmeans(data)
    \/ /\ pc = "km_post"
       /\ \E up \in KmReplies : KmeansReply(up)
    \/ /\ pc = "idle"
       /\ \E known_models \in KnownModelsValues : GetAllModels(known_models)
    \/ /\ pc = "models_get"
       /\ \E up \in MetaReplies : ModelInfoReply(up)
    \/ /\ pc = "idle"
       /\ \E m \in ModelNames, backend \in MetaReplies : GetModelInfoByName(m, backend)
    \/ /\ pc = "idle"
       /\ \E m \in ModelNames, v \in Versions, backend \in MetaReplies :
              GetModelInfoByVersion(m, v, backend)
    \/ Complete

Spec == Init /\ [][Next]_vars

\* ------------------------------------------------------------------ validate_request applied to a payload
\* ModelHandNumbers.validate_request applied to every payload
InitDigitValidate ==
    /\ pc = "hn_validate"
    /\ req \in {[op |-> "hn_validate", data |-> d] : d \in DigitPayloads}
    /\ resp = NoResp
    /\ posts = 0
    /\ gets = 0
    /\ ctx = NoCtx

DigitValidate ==
    /\ pc = "hn_validate"
    /\ pc' = "hn_validated"
    /\ resp' = [status |-> 0, exc |-> hn_validate_request(req.data)]
    /\ UNCHANGED <<req, posts, gets, ctx>>

NextDigitValidate == DigitValidate

SpecDigitValidate == InitDigitValidate /\ [][NextDigitValidate]_vars

\* ModelKMeansPlusPlus.validate_request applied to JSON arrays of up to
\* MaxElems elements of every shape, followed by none, MaxPointsAllowed - 1 or
\* MaxPointsAllowed points
MaxElems == 2

ElementShapes ==
    {PointOk, JList(<<JFloat(5), JInt(0)>>), PointOfThree, JList(<<JInt(1)>>), JOther,
     JList(<<JInt(1), JStr>>), JList(<<JBool, JInt(1)>>), JList(<<JInt(1), JNull>>),
     JList(<<JNested, JInt(1)>>)}

FillCounts == {0, MaxPointsAllowed - 1, MaxPointsAllowed}

Filled(s, k) == s \o [i \in 1..k |-> PointOk]

KmValidatePayloads ==
    {KmText("empty"), KmText("blank"), KmText("malformed"), KmJson(JOther)}
    \cup {KmJson(JList(Filled(s, k))) : s \in SeqUpTo(ElementShapes, MaxElems), k \in FillCounts}

InitKmValidate ==
    /\ pc = "km_validate"
    /\ req \in {[op |-> "km_validate", data |-> d] : d \in KmValidatePayloads}
    /\ resp = NoResp
    /\ posts = 0
    /\ gets = 0
    /\ ctx = NoCtx

KmValidate ==
    /\ pc = "km_validate"
    /\ pc' = "km_validated"
    /\ resp' = [status |-> 0, exc |-> km_validate_request(req.data).exc,
                points |-> km_validate_request(req.data).points]
    /\ UNCHANGED <<req, posts, gets, ctx>>

NextKmValidate == KmValidate

SpecKmValidate == InitKmValidate /\ [][NextKmValidate]_vars

\* ------------------------------------------------------------------ predict applied to a payload
\* ModelHandNumbers.predict called on its own, without validate_request
\* before it, on every payload, up to its POST
InitDigitPredict ==
    /\ pc = "hn_predict"
    /\ req \in {[op |-> "hn_predict", data |-> d, image |-> i] :
                   d \in DigitPayloads, i \in BOOLEAN}
    /\ resp = NoResp
    /\ posts = 0
    /\ gets = 0
    /\ ctx = NoCtx

DigitPredict ==
    /\ pc = "hn_predict"
    /\ pc' = "hn_predicted"
    /\ LET p == hn_predict_prepare(req.data, req.image)
       IN /\ resp' = [status |-> 0, exc |-> p.exc]
          /\ posts' = IF p.exc = NoExc THEN posts + 1 ELSE posts
    /\ UNCHANGED <<req, gets, ctx>>

NextDigitPredict == DigitPredict

SpecDigitPredict == InitDigitPredict /\ [][NextDigitPredict]_vars

\* ------------------------------------------------------------------ adapter classes
\* What the body of a class derived from ModelBase binds PredictRequest or
\* PredictResponse to: nothing, a value that is no class, a class that
\* extends neither base shape, a base shape itself, or a class that extends one
Declarations ==
    {"absent", "not_a_class", "unrelated_class", "BasePredictRequest", "BasePredictResponse",
     "extends_BasePredictRequest", "extends_BasePredictResponse"}

\* the class the new class derives from: ModelBase itself, or an adapter
\* that was defined before (so it has both types, each extending its base shape)
Parents == {"ModelBase", "adapter"}

\* cls.<name>: the class's own binding, else the parent's.  ModelBase only
\* annotates PredictRequest and PredictResponse (base.py lines 33-34), which
\* binds nothing.
class_attribute(parent, own, base) ==
    IF own # "absent" THEN own
    ELSE IF parent = "adapter"
    THEN (IF base = "BasePredictRequest" THEN "extends_BasePredictRequest"
          ELSE "extends_BasePredictResponse")
    ELSE "absent"

hasattr(attr) == attr # "absent"

isinstance_type(attr) == attr \notin {"absent", "not_a_class"}

\* issubclass(attr, base): a class is a subclass of itself
issubclass(attr, base) ==
    \/ attr = base
    \/ attr = "extends_BasePredictRequest" /\ base = "BasePredictRequest"
    \/ attr = "extends_BasePredictResponse" /\ base = "BasePredictResponse"

\* (variant: only PredictRequest is checked)
init_subclass_request_only(parent, PredictRequest, PredictResponse) ==
    LET request == class_attribute(parent, PredictRequest, "BasePredictRequest")
    IN IF ~hasattr(request)
       THEN Exc("TypeError", "must define a PredictRequest class attribute")
       ELSE IF ~(isinstance_type(request) /\ issubclass(request, "BasePredictRequest"))
       THEN Exc("TypeError", "PredictRequest must inherit from BasePredictRequest")
       ELSE NoExc

\* ModelBase.__init_subclass__ (base.py lines 46-64): the TypeError raised, or none
init_subclass(parent, PredictRequest, PredictResponse) ==
    LET request == class_attribute(parent, PredictRequest, "BasePredictRequest")
        response == class_attribute(parent, PredictResponse, "BasePredictResponse")
    IN IF ~hasattr(request)
       THEN Exc("TypeError", "must define a PredictRequest class attribute")
       ELSE IF ~(isinstance_type(request) /\ issubclass(request, "BasePredictRequest"))
       THEN Exc("TypeError", "PredictRequest must inherit from BasePredictRequest")
       ELSE IF ~hasattr(response)
       THEN Exc("TypeError", "must define a PredictResponse class attribute")
       ELSE IF ~(isinstance_type(response) /\ issubclass(response, "BasePredictResponse"))
       THEN Exc("TypeError", "PredictResponse must inherit from BasePredictResponse")
       ELSE NoExc

\* a class statement with every combination of bindings is executed, at
\* import time: no request has been handled
InitDefineAdapter ==
    /\ pc = "class_body"
    /\ req \in {[op |-> "define_adapter", parent |-> b, PredictRequest |-> q,
                 PredictResponse |-> r] :
                    b \in Parents, q \in Declarations, r \in Declarations}
    /\ resp = NoResp
    /\ posts = 0
    /\ gets = 0
    /\ ctx = NoCtx

\* the class statement ends: __init_subclass__ runs, and the class exists
\* unless it raises
DefineAdapter ==
    /\ pc = "class_body"
    /\ LET e == init_subclass(req.parent, req.PredictRequest, req.PredictResponse)
       IN /\ resp' = [status |-> 0, exc |-> e]
          /\ pc' = IF e = NoExc THEN "class_defined" ELSE "class_failed"
    /\ UNCHANGED <<req, posts, gets, ctx>>

NextDefineAdapter == DefineAdapter

SpecDefineAdapter == InitDefineAdapter /\ [][NextDefineAdapter]_vars

\* ------------------------------------------------------------------ properties
IsPredict == req.op \in {"handnumbers", "kmeans"}

PayloadFailsValidation ==
    \/ req.op = "handnumbers" /\ hn_validate_request(req.data) # "ok"
    \/ req.op = "kmeans" /\ km_validate_request(req.data).exc # "ok"

\* "data:image/png;base64," : the prefix, "png;base64" and the comma
EmptyDataUrl == <<DataImagePrefix, "A", "!", "A", ",">>

\* C1: on both predict endpoints a payload that fails validation is answered
\* with 400 and no POST is issued for the request; the digit payload
\* "data:image/png;base64," is answered with 400 and no POST
C1_InvalidPayloadNoPost ==
    /\ IsPredict /\ PayloadFailsValidation =>
           posts = 0 /\ pc # "hn_post" /\ pc # "km_post" /\ (pc = "done" => resp.status = 400)
    /\ req.op = "handnumbers" /\ req.data = EmptyDataUrl =>
           posts = 0 /\ pc = "done" /\ resp.status = 400

C1_Witness ==
    /\ pc = "done" /\ req.op = "handnumbers" /\ req.data = EmptyDataUrl
    /\ resp.status = 400 /\ posts = 0

\* the rule of the claims C2 and C3 for a text: every character other than a
\* newline is in the base64 alphabet, and the text decodes
InAlphabetAndDecodes(text) ==
    /\ \A i \in 1..Len(text) : text[i] = "\n" \/ text[i] \in {"A", "="}
    /\ b64decode(text).ok

IsBlank(text) == \A i \in 1..Len(text) : text[i] \in whitespace

\* C2 as stated: a non-empty payload without a data URL prefix is accepted
\* iff it satisfies the rule
C2_RawAcceptedIffRule ==
    pc = "hn_validated" /\ req.data # <<>> /\ ~startswith(req.data, DataImagePrefix) =>
        (resp.exc = "ok" <=> InAlphabetAndDecodes(req.data))

\* C2, amended: a payload without a data URL prefix that is not empty and not
\* only white space is accepted iff it satisfies the rule, and is rejected
\* with a ValueError otherwise; a payload of white space only is rejected
C2_NonBlankRawAcceptedIffRule ==
    pc = "hn_validated" /\ ~startswith(req.data, DataImagePrefix) =>
        /\ ~IsBlank(req.data) => (resp.exc = "ok" <=> InAlphabetAndDecodes(req.data))
        /\ IsBlank(req.data) => resp.exc = ValueErrorEmpty
        /\ resp.exc \in {"ok", ValueErrorEmpty, ValueErrorChars, ValueErrorDecode}

C2_Witness ==
    /\ pc = "hn_validated" /\ req.data = <<"A", "A", "\n", "=">>
    /\ resp.exc = ValueErrorDecode /\ ~InAlphabetAndDecodes(req.data)

\* C3: of a data URL whose text after the first comma is not blank, the
\* payload is that text, and the payload is accepted iff it satisfies the rule
C3_DataUrlAcceptedIffRule ==
    /\ pc = "hn_validated" /\ startswith(req.data, DataImagePrefix) /\ Contains(req.data, ",")
    /\ ~IsBlank(split_comma(req.data)[2])
    => (resp.exc = "ok" <=> InAlphabetAndDecodes(split_comma(req.data)[2]))

IsJsonNumber(coord) == coord.t \in {"int", "float"}

IsPointOfTwoNumbers(e) ==
    e.list /\ Len(e.items) = 2 /\ IsJsonNumber(e.items[1]) /\ IsJsonNumber(e.items[2])

\* C4: a JSON array that is empty, longer than 1000, or holds an element
\* that is not an array of two JSON numbers is rejected; an array of 1 to
\* 1000 points of two numbers each is accepted and returned unchanged
C4_ClusterValidation ==
    pc = "km_validated" /\ req.data.text = "json" /\ req.data.value.list =>
        LET arr == req.data.value.items
        IN IF /\ Len(arr) \in 1..1000
              /\ \A i \in 1..Len(arr) : IsPointOfTwoNumbers(arr[i])
           THEN resp.exc = "ok" /\ resp.points = arr
           ELSE resp.exc # "ok"

UpstreamFailed ==
    \/ ctx.up.kind \in {"unreachable", "status"}
    \/ /\ ctx.up.kind = "json"
       /\ \/ "predictions" \notin ctx.up.body.keys
          \/ /\ req.op = "kmeans"
             /\ ctx.up.body.predictions # <<>>
             /\ ~(KmFields \subseteq ctx.up.body.predictions[1].keys)

\* C5: a predict call with a valid payload whose backend call fails (backend
\* unreachable, status other than success, expected field missing in the
\* body) is answered with 500 and the detail "Internal server error"
C5_UpstreamFailureIs500 ==
    pc = "done" /\ IsPredict /\ UpstreamFailed =>
        resp.status = 500 /\ resp.detail = <<"Internal server error">>

C5_Witness ==
    /\ pc = "done" /\ req.op = "kmeans" /\ ctx.up.kind = "json"
    /\ "predictions" \in ctx.up.body.keys /\ ctx.up.body.predictions # <<>>
    /\ "centroids" \notin ctx.up.body.predictions[1].keys
    /\ resp.status = 500

QueryFailed(up) == up.kind # "json"

\* the last query of the model named m
LastQuery(m) ==
    ctx.log[CHOOSE i \in 1..Len(ctx.log) :
                ctx.known[i] = m /\ \A j \in (i + 1)..Len(ctx.log) : ctx.known[j] # m]

IsErrorEntry(e) == DOMAIN e = {"error"}

\* C6: get_all_models queries every known model whatever the outcome of the
\* queries before; the result has an entry for every known model, an error
\* entry for a model whose query failed; available_models counts the other
\* models; with the backend unreachable every entry is an error entry,
\* available_models is 0 and the answer is 200
C6_AllModelsIndependent ==
    /\ req.op = "models" =>
           gets = Len(ctx.log) + (IF pc = "models_get" THEN 1 ELSE 0)
    /\ pc = "done" /\ req.op = "models" =>
        LET known == get_known_models(req.known_models)
            names == {known[i] : i \in 1..Len(known)}
            models == resp.body.models
        IN /\ Len(ctx.log) = Len(known)
           /\ gets = Len(known)
           /\ DOMAIN models = names
           /\ \A m \in names : IsErrorEntry(models[m]) <=> QueryFailed(LastQuery(m))
           /\ \A m \in names : ~QueryFailed(LastQuery(m)) => models[m] = LastQuery(m).body
           /\ resp.body.available_models =
                  Cardinality({m \in names : ~QueryFailed(LastQuery(m))})
           /\ (\A i \in 1..Len(ctx.log) : ctx.log[i].kind = "unreachable") =>
                  /\ \A m \in names : IsErrorEntry(models[m])
                  /\ resp.body.available_models = 0
                  /\ resp.status = 200

C6_Witness ==
    /\ pc = "done" /\ req.op = "models" /\ Len(ctx.log) = 2
    /\ ctx.known = <<<<"a">>, <<"b">>>>
    /\ ctx.log[1].kind = "unreachable" /\ ctx.log[2].kind = "json"
    /\ resp.body.available_models = 1

AllUnreachable == \A i \in 1..Len(ctx.log) : ctx.log[i].kind = "unreachable"

\* C7 as stated: GET /models answers 503 when every query fails with a
\* connection failure, and 200 only when the failure is partial
C7_TotalFailureIs503 ==
    pc = "done" /\ req.op = "models" =>
        IF AllUnreachable THEN resp.status = 503 ELSE resp.status = 200

\* C7, amended: GET /models answers 200 also when every query fails with a
\* connection failure, every entry then being an error entry; as it does
\* when the failure is partial
C7_TotalFailureIs200 ==
    pc = "done" /\ req.op = "models" =>
        /\ resp.status = 200
        /\ AllUnreachable => \A m \in DOMAIN resp.body.models :
                                 IsErrorEntry(resp.body.models[m])

C7_Witness ==
    /\ pc = "done" /\ req.op = "models" /\ Len(ctx.log) = 2 /\ AllUnreachable
    /\ resp.status = 200 /\ resp.body.available_models = 0

\* C8: the two single-model routes answer 200 with the backend's metadata
\* whenever the backend answers the query with 200, and 503 only when the
\* query fails
C8_ModelInfoPassThrough ==
    pc = "done" /\ req.op = "model_info" =>
        IF req.backend.kind = "json"
        THEN resp.status = 200 /\ resp.body = req.backend.body
        ELSE resp.status = 503

KmSuccess == pc = "done" /\ req.op = "kmeans" /\ resp.status = 200

TfPredictionsOfReply == ctx.up.body.predictions[1]

\* the records of a cluster response: one per input point, in order, with
\* the backend's values where its arrays have them and 0 elsewhere
RecordsFollowPoints ==
    LET n == Len(km_validate_request(req.data).points)
        a == TfPredictionsOfReply.cluster_assignments
        d == TfPredictionsOfReply.distances_to_assigned_cluster
        records == resp.body.predictions
    IN /\ Len(records) = n
       /\ a.list => \A i \in 1..n :
              records[i].cluster_assignments =
                  IF i <= Len(a.items) THEN py_int(a.items[i]) ELSE 0
       /\ d.list => \A i \in 1..n :
              records[i].distances_to_assigned_cluster =
                  IF i <= Len(d.items) THEN py_float(d.items[i]) ELSE 0

\* C9 as stated: one record per input point, and every record carries
\* centroids[0] of the backend's answer
C9_RecordsCarryFirstCentroids ==
    KmSuccess =>
        /\ RecordsFollowPoints
        /\ \A i \in 1..Len(resp.body.predictions) :
               /\ TfPredictionsOfReply.centroids = "[K1,K2]"
               /\ resp.body.predictions[i].centroids = "K1"

\* C9, amended: one record per input point, and every record carries the
\* same centroids: centroids[0] of the backend's answer when its centroids
\* are a non-empty array, and the backend's centroids value as it is otherwise
C9_RecordsCarrySameCentroids ==
    KmSuccess =>
        /\ RecordsFollowPoints
        /\ \A i \in 1..Len(resp.body.predictions) :
               resp.body.predictions[i].centroids =
                   IF TfPredictionsOfReply.centroids = "[K1,K2]" THEN "K1"
                   ELSE TfPredictionsOfReply.centroids

C9_Witness ==
    /\ KmSuccess /\ Len(resp.body.predictions) = 3
    /\ TfPredictionsOfReply.cluster_assignments = JList(<<JInt(2), JInt(1)>>)
    /\ TfPredictionsOfReply.distances_to_assigned_cluster = JList(<<JInt(20)>>)
    /\ resp.body.predictions[2].cluster_assignments = 1
    /\ resp.body.predictions[3].cluster_assignments = 0
    /\ resp.body.predictions[1].distances_to_assigned_cluster = 200
    /\ resp.body.predictions[1].centroids = "K1"

AssignmentsOfReply == TfPredictionsOfReply.cluster_assignments.items

IsMostFrequent(x, s) == \A i \in 1..Len(s) : Count(s, s[i]) <= Count(s, x)

FirstPosition(x, s) == CHOOSE i \in 1..Len(s) : s[i] = x /\ \A j \in 1..(i - 1) : s[j] # x

\* C10 as stated: prediction is the most frequent value of the backend's
\* cluster_assignments, and of several most frequent values the one that
\* comes first in cluster_assignments
C10_TieFirstEncountered ==
    KmSuccess /\ TfPredictionsOfReply.cluster_assignments.list /\ AssignmentsOfReply # <<>> =>
        LET s == AssignmentsOfReply
            x == JInt(resp.body.prediction)
        IN /\ x \in Values(s)
           /\ IsMostFrequent(x, s)
           /\ \A y \in Values(s) : IsMostFrequent(y, s) => FirstPosition(x, s) <= FirstPosition(y, s)

\* C10, amended: prediction is the most frequent value of the backend's
\* cluster_assignments, and of several most frequent values (cluster ids
\* 0..7) the smallest one
C10_TieSmallest ==
    KmSuccess /\ TfPredictionsOfReply.cluster_assignments.list /\ AssignmentsOfReply # <<>> =>
        LET s == AssignmentsOfReply
            x == JInt(resp.body.prediction)
        IN /\ x \in Values(s)
           /\ IsMostFrequent(x, s)
           /\ \A y \in Values(s) : IsMostFrequent(y, s) => resp.body.prediction <= y.v

C10_Witness ==
    /\ KmSuccess /\ TfPredictionsOfReply.cluster_assignments = JList(<<JInt(1), JInt(0)>>)
    /\ resp.body.prediction = 0

\* the backend's distances_to_assigned_cluster of a cluster reply, as a
\* sequence: the array's items, or the single value
DistancesOfReply == TfPredictionsOfReply.distances_to_assigned_cluster.items

\* C11: for every successful cluster prediction whose backend answer has a
\* non-empty distances_to_assigned_cluster, confidence is
\* max(0, min(1, 1 - d/10)) with d the mean of these distances (so it lies in
\* [0,1]; d=0 gives 1, d=10 gives 0, d=20 gives 0).  With the sum T of the
\* L distances in tenths, 1 - d/10 is (100 * L - T) / (100 * L).
C11_ConfidenceFromMeanDistance ==
    KmSuccess /\ DistancesOfReply # <<>> =>
        LET L == Len(DistancesOfReply)
            T == SumTenths(DistancesOfReply)
            c == resp.body.confidence
        IN /\ c.num * (100 * L) = Clamp(0, 100 * L - T, 100 * L) * c.den
           /\ 0 <= c.num /\ c.num <= c.den

\* the number of points of a cluster request
NumPoints == Len(km_validate_request(req.data).points)

\* fractions num/den: equality, and the sum of a sequence of them
FracEq(f, num, den) == f.num * den = num * f.den

RECURSIVE FracSum(_)
FracSum(fs) ==
    IF fs = <<>> THEN [num |-> 0, den |-> 1]
    ELSE LET r == FracSum(Tail(fs))
         IN [num |-> Head(fs).num * r.den + r.num * Head(fs).den, den |-> Head(fs).den * r.den]

MaxId(s) == SeqMax([i \in 1..Len(s) |-> s[i].v])

\* C12 as stated: probabilities has one entry per cluster id from 0 to the
\* largest assigned id; entry c is the number of assignments equal to c
\* divided by the number of input points; the entries sum to 1 when there is
\* an assignment; without assignments probabilities is [1.0]
C12_SharesOfInputPoints ==
    KmSuccess /\ TfPredictionsOfReply.cluster_assignments.list =>
        LET s == AssignmentsOfReply
            p == resp.body.probabilities
        IN /\ s = <<>> => p = <<[num |-> 1, den |-> 1]>>
           /\ s # <<>> =>
                  /\ Len(p) = MaxId(s) + 1
                  /\ \A c \in 1..Len(p) : FracEq(p[c], Count(s, JInt(c - 1)), NumPoints)
                  /\ FracEq(FracSum(p), 1, 1)

\* C12, amended: as stated, with entry c the number of assignments equal to
\* c divided by the number of assignments of the backend's answer; a single
\* value k in place of the array gives k zeros followed by 1.0
C12_SharesOfAssignments ==
    KmSuccess =>
        LET a == TfPredictionsOfReply.cluster_assignments
            p == resp.body.probabilities
        IN /\ a.list /\ a.items = <<>> => p = <<[num |-> 1, den |-> 1]>>
           /\ a.list /\ a.items # <<>> =>
                  /\ Len(p) = MaxId(a.items) + 1
                  /\ \A c \in 1..Len(p) :
                         FracEq(p[c], Count(a.items, JInt(c - 1)), Len(a.items))
                  /\ FracEq(FracSum(p), 1, 1)
           /\ ~a.list =>
                  /\ Len(p) = a.items[1].v + 1
                  /\ \A c \in 1..Len(p) : FracEq(p[c], IF c = Len(p) THEN 1 ELSE 0, 1)

\* one point in the request, two assignments in the backend's answer
C12_Witness ==
    /\ KmSuccess /\ NumPoints = 1
    /\ TfPredictionsOfReply.cluster_assignments = JList(<<JInt(2), JInt(0)>>)
    /\ Len(resp.body.probabilities) = 3
    /\ FracEq(resp.body.probabilities[1], 1, 2)
    /\ FracEq(resp.body.probabilities[2], 0, 1)
    /\ FracEq(resp.body.probabilities[3], 1, 2)

HnSuccess == pc = "done" /\ req.op = "handnumbers" /\ resp.status = 200

\* predictions[0] of the backend's answer to the digit POST
ScoresOfReply == ctx.up.body.predictions[1]

\* C13: for every successful digit prediction, with scores = predictions[0]
\* of the backend's body: prediction is the first index (from 0) of the
\* maximum score, confidence is the maximum score, and probabilities is
\* scores, order and length kept
C13_DigitResponseFromScores ==
    HnSuccess =>
        LET scores == ScoresOfReply
            k == resp.body.prediction
        IN /\ k \in 0..(Len(scores) - 1)
           /\ \A i \in 1..Len(scores) : scores[i] <= scores[k + 1]
           /\ \A i \in 1..k : scores[i] < scores[k + 1]
           /\ resp.body.confidence = scores[k + 1]
           /\ resp.body.probabilities = scores

\* two classes with the same score: the first one is predicted
C13_Witness ==
    /\ HnSuccess /\ ScoresOfReply = <<9, 9>>
    /\ resp.body.prediction = 0 /\ resp.body.confidence = 9
    /\ resp.body.probabilities = <<9, 9>>

\* the answer of the digit route to a result of predict
HnResponse(r) ==
    IF r.exc # NoExc
    THEN predict_error(r.exc, "Invalid image data: ")
    ELSE [status |-> 200, body |-> r.body]

\* C14: with image saving enabled, a failing image write (of the original
\* bytes or of the processed image) does not change the outcome: the answer
\* is the one given with saving disabled; and no write is attempted for a
\* request whose backend call failed
C14_SaveFailureSwallowed ==
    pc = "done" /\ req.op = "handnumbers" /\ posts = 1 =>
        /\ resp = HnResponse(hn_predict_finish(ctx.up, FALSE, FALSE, FALSE))
        /\ resp.status # 200 => ctx.attempts = 0 /\ ctx.saved = 0
        /\ ctx.attempts > 0 => ctx.save_images

\* saving is enabled, both writes fail, and the prediction is answered
C14_Witness ==
    /\ HnSuccess /\ ctx.save_images /\ ~ctx.w_original /\ ~ctx.w_processed
    /\ ctx.attempts = 2 /\ ctx.saved = 0
    /\ resp.body.prediction = 1 /\ ScoresOfReply = <<1, 9>>

\* what the new class has as PredictRequest / PredictResponse: its own
\* binding, or the one it inherits from an adapter it derives from
DeclaredRequest ==
    IF req.PredictRequest = "absent" /\ req.parent = "adapter"
    THEN "extends_BasePredictRequest" ELSE req.PredictRequest

DeclaredResponse ==
    IF req.PredictResponse = "absent" /\ req.parent = "adapter"
    THEN "extends_BasePredictResponse" ELSE req.PredictResponse

\* C15: defining an adapter class fails with a TypeError, when the class
\* statement is executed and before any request is handled, whenever the
\* class has no PredictRequest or no PredictResponse, or has one that is not
\* a class extending BasePredictRequest / BasePredictResponse respectively
\* (the base shape itself counts as extending it); it succeeds when both are
\* there and extend the base shapes
C15_AdapterTypesChecked ==
    pc # "class_body" /\ req.op = "define_adapter" =>
        LET request_ok == DeclaredRequest \in {"BasePredictRequest", "extends_BasePredictRequest"}
            response_ok ==
                DeclaredResponse \in {"BasePredictResponse", "extends_BasePredictResponse"}
        IN /\ request_ok /\ response_ok => pc = "class_defined" /\ resp.exc = NoExc
           /\ ~(request_ok /\ response_ok) => pc = "class_failed" /\ resp.exc.type = "TypeError"
           /\ posts = 0 /\ gets = 0

\* PredictRequest is right and PredictResponse extends the request shape
C15_Witness ==
    /\ pc = "class_failed" /\ req.parent = "ModelBase"
    /\ req.PredictRequest = "extends_BasePredictRequest"
    /\ req.PredictResponse = "extends_BasePredictRequest"
    /\ resp.exc.type = "TypeError"

\* C16 as stated: a single value s in place of the array of
\* cluster_assignments or distances_to_assigned_cluster is taken as the
\* one-element sequence [s]: of a request with N > 1 points record 0
\* carries s and the records 1..N-1 carry 0 and 0.0
C16_ScalarIsOneElement ==
    KmSuccess /\ NumPoints > 1 =>
        LET a == TfPredictionsOfReply.cluster_assignments
            d == TfPredictionsOfReply.distances_to_assigned_cluster
            records == resp.body.predictions
        IN /\ ~a.list =>
                  /\ records[1].cluster_assignments = py_int(a.items[1])
                  /\ \A i \in 2..NumPoints : records[i].cluster_assignments = 0
           /\ ~d.list =>
                  /\ records[1].distances_to_assigned_cluster = py_float(d.items[1])
                  /\ \A i \in 2..NumPoints : records[i].distances_to_assigned_cluster = 0

\* C16, amended: a single value s in place of an array is taken as one copy
\* of s per input point: every record carries s
C16_ScalarIsOnePerPoint ==
    KmSuccess =>
        LET a == TfPredictionsOfReply.cluster_assignments
            d == TfPredictionsOfReply.distances_to_assigned_cluster
            records == resp.body.predictions
        IN /\ Len(records) = NumPoints
           /\ ~a.list =>
                  \A i \in 1..NumPoints : records[i].cluster_assignments = py_int(a.items[1])
           /\ ~d.list =>
                  \A i \in 1..NumPoints :
                      records[i].distances_to_assigned_cluster = py_float(d.items[1])

\* three points, and the backend answers with the single values 2 and 0.5
C16_Witness ==
    /\ KmSuccess /\ NumPoints = 3
    /\ ~TfPredictionsOfReply.cluster_assignments.list
    /\ TfPredictionsOfReply.cluster_assignments.items = <<JInt(2)>>
    /\ ~TfPredictionsOfReply.distances_to_assigned_cluster.list
    /\ TfPredictionsOfReply.distances_to_assigned_cluster.items = <<JFloat(5)>>
    /\ resp.body.predictions[3].cluster_assignments = 2
    /\ resp.body.predictions[3].distances_to_assigned_cluster = 5

\* the payloads C17 names: empty or white space only; a data URL without a
\* comma or with nothing but white space after it; a segment that does not
\* base64-decode.  validate_request rejects each of them.
RejectedPayload(data) ==
    \/ IsBlank(data)
    \/ startswith(data, DataImagePrefix) /\ ~Contains(data, ",")
    \/ startswith(data, DataImagePrefix) /\ Contains(data, ",")
           /\ (IsBlank(split_comma(data)[2]) \/ ~b64decode(split_comma(data)[2]).ok)
    \/ ~startswith(data, DataImagePrefix) /\ ~b64decode(data).ok

\* C17: predict, called on its own with a payload that validate_request
\* would reject, fails with a ValueError and issues no POST
C17_PredictRechecksPayload ==
    pc = "hn_predicted" /\ RejectedPayload(req.data) =>
        /\ hn_validate_request(req.data) # "ok"
        /\ resp.exc.type \in ValueErrorTypes
        /\ posts = 0

\* C18: there is no retry.  A predict request issues at most one POST, and
\* when the call fails the request ends with an error answer and that one
\* POST; a single-model metadata query issues at most one GET;
\* get_all_models issues one GET per entry of the known models, one after
\* the other, whatever their outcomes, and a failed query is recorded as
\* the error entry of its model
C18_NoRetry ==
    /\ posts <= 1
    /\ posts = 1 => IsPredict
    /\ IsPredict => gets = 0
    /\ IsPredict /\ pc = "done" /\ ctx.up.kind \notin {"none", "json"} =>
           posts = 1 /\ resp.status \in {400, 500}
    /\ req.op = "model_info" => gets <= 1 /\ posts = 0
    /\ req.op = "models" =>
           LET known == get_known_models(req.known_models)
           IN /\ posts = 0
              /\ gets = Len(ctx.log) + (IF pc = "models_get" THEN 1 ELSE 0)
              /\ gets <= Len(known)
              /\ pc = "done" =>
                     /\ gets = Len(known)
                     /\ \A i \in 1..Len(known) :
                            QueryFailed(LastQuery(known[i])) =>
                                IsErrorEntry(resp.body.models[known[i]])

\* two known models: the first query fails, the second one is made all the
\* same, and two GETs were issued in all
C18_Witness ==
    /\ pc = "done" /\ req.op = "models" /\ req.known_models = <<"a", ",", "b">>
    /\ ctx.log[1].kind = "status" /\ ctx.log[2].kind = "json"
    /\ gets = 2 /\ IsErrorEntry(resp.body.models[<<"a">>])

\* C19: a predict request whose payload passed validation and whose POST
\* was issued is never answered with 400, whatever the backend's response
\* holds: it ends in 200 or 500
C19_BackendContentNever400 ==
    IsPredict /\ pc = "done" /\ posts = 1 =>
        /\ ~PayloadFailsValidation
        /\ resp.status \in {200, 500}

====
